---- MODULE Spec2Model ----
(***************************************************************************)
(* Model of lutris/gui/dialogs/game_import.py: ImportGameDialog.           *)
(*                                                                         *)
(* Two threads: the worker started by AsyncCall runs search_checksums,     *)
(* the GTK main loop runs the idle callbacks scheduled by the worker and   *)
(* then search_result_finished, which calls import_rom once per candidate. *)
(* The collaborators that live outside the file (path cache, checksum,     *)
(* catalog lookup, platform guess, config writer, game database, media     *)
(* download) are modelled by their outcomes, chosen where they are called. *)
(***************************************************************************)
EXTENDS Integers, Sequences, FiniteSets, TLC

(* ------------------------------ bounds --------------------------------- *)

\* Largest number of files handed to the dialog.
MaxFiles == 2

\* Largest number of rom sets the catalog returns for one checksum.
MaxCands == 2

\* Number of games already in the library when the dialog opens.
NumInstalled == 2

(* ------------------------------ values --------------------------------- *)

\* File paths are strings of characters.
AllPaths ==
    << <<"a", ".", "Z", "i", "p">>,
       <<"b", ".", "r", "o", "m">>,
       <<"c", ".", "z", "i", "p">>,
       <<"z", "i", "p", ".", "d">> >>

\* The path of a library game that is not one of the imported files.
OtherPath == <<"o", ".", "r", "o", "m">>

\* The value the default installers use for the ROM location.
RomPlaceholder == <<"r", "o", "m">>

\* "No platform": what guess_platform returns for an unknown category, and
\* the initial value of self.platform.
None == "None"

\* An exception is its message; messages built with % carry the argument.
Message(msg, arg) == [msg |-> msg, arg |-> arg]

NoText == Message("", "")

NotIdentified == Message("This ROM could not be identified.", "")

UnknownPlatform(category) == Message("The platform '%s' is unknown to Lutris.", category)

NoDefaultInstaller(platform) ==
    Message("Lutris does not have a default installer for the '%s' platform.", platform)

\* Errors raised by the collaborators.
ChecksumError == Message("IOError: cannot read file", "")

CatalogError == Message("LookupError: catalog unavailable", "")

ConfigWriteError == Message("PersistenceError: config write failed", "")

InsertError == Message("PersistenceError: game insert failed", "")

PathCacheError == Message("PersistenceError: path cache unavailable", "")

\* Progress messages of search_checksums.
MsgLookingInstalled == "Looking for installed game..."

MsgChecksum == "Calculating checksum..."

MsgLookup == "Looking up checksum on Lutris.net..."

\* The library's ids of the games installed before the dialog opens.
InstalledIds == 1..NumInstalled

\* What the catalog can answer for a rom set: a name, a category and roms.
Rom(md5) == [md5 |-> md5]

RomSet(name, category, roms) == [name |-> name, category |-> [name |-> category], roms |-> roms]

RomSetShapes(md5) ==
    { RomSet("Game One (USA)", "Console One", <<Rom(md5)>>),
      RomSet("Game Two (EU)", "Console Two", <<Rom(md5)>>),
      RomSet("Game Three", "Console Three", <<Rom(md5)>>),
      RomSet("Game X", "Mystery Box", <<Rom(md5)>>),
      RomSet("Game Empty", "Console One", <<>>) }

SeqsUpTo(S, n) == UNION { [1..k -> S] : k \in 0..n }

\* The lookup answers for a checksum: any short sequence of rom sets.
CatalogAnswers(md5) == SeqsUpTo(RomSetShapes(md5), MaxCands)

(* --------------------------- collaborators ----------------------------- *)

\* str.lower() on one character and on a string.
LowerChar(c) ==
    CASE c = "Z" -> "z"
      [] c = "I" -> "i"
      [] c = "P" -> "p"
      [] OTHER -> c

Lower(s) == [i \in 1..Len(s) |-> LowerChar(s[i])]

\* str.endswith(suffix)
EndsWith(s, suffix) ==
    /\ Len(s) >= Len(suffix)
    /\ SubSeq(s, Len(s) - Len(suffix) + 1, Len(s)) = suffix

DotZip == <<".", "z", "i", "p">>

\* The two checksum functions of lutris.util.system: a digest is named by the
\* function that produced it and the file it was taken from.
get_md5_in_zip(filename) == [fn |-> "get_md5_in_zip", of |-> filename]

get_md5_hash(filename) == [fn |-> "get_md5_hash", of |-> filename]

\* lutris.scanners.tosec.guess_platform: the platform of a rom set's category,
\* or None.
guess_platform(rom_set) ==
    CASE rom_set.category.name = "Console One" -> "platform-one"
      [] rom_set.category.name = "Console Two" -> "platform-two"
      [] rom_set.category.name = "Console Three" -> "platform-three"
      [] OTHER -> None

\* lutris.scanners.tosec.clean_rom_name: the name without its TOSEC flags.
clean_rom_name(name) ==
    CASE name = "Game One (USA)" -> "Game One"
      [] name = "Game Two (EU)" -> "Game Two"
      [] OTHER -> name

\* lutris.util.strings.slugify
slugify(name) ==
    CASE name = "Game One" -> "game-one"
      [] name = "Game Two" -> "game-two"
      [] name = "Game Three" -> "game-three"
      [] name = "Game X" -> "game-x"
      [] name = "Game Empty" -> "game-empty"
      [] OTHER -> "game"

\* lutris.scanners.default_installers.DEFAULT_INSTALLERS as shipped: one
\* template per supported platform ("platform-three" has none).
DefaultInstallers ==
    [p \in {"platform-one", "platform-two"} |->
        IF p = "platform-one"
        THEN [runner |-> "runner-one",
              game |-> [main_file |-> RomPlaceholder, core |-> <<"c", "1">>]]
        ELSE [runner |-> "runner-two",
              game |-> [main_file |-> RomPlaceholder, core |-> <<"c", "2">>]]]

\* Game(game_id).name for a game of the library.
GameName(game_id) == "Installed game"

(* ------------------------------- state --------------------------------- *)

VARIABLES
    files,              \* self.files
    path_cache,         \* what get_path_cache() returns: game id -> path
    auto_launch_button, \* self.auto_launch_button.get_active()
    installers,         \* DEFAULT_INSTALLERS
    platform,           \* self.platform
    progress_labels,    \* self.progress_labels: filename -> label
    error_labels,       \* self.error_labels: filename -> label
    info_labels,        \* checksum, description and category labels
    destroyed,          \* self.destroy() was called
    worker_pc,          \* position of the worker thread in search_checksums
    game_path_cache,    \* search_checksums' local game_path_cache
    wi,                 \* index in self.files of the worker's next file
    results,            \* search_checksums' local results (an OrderedDict)
    idle_queue,         \* callbacks scheduled on the main loop (GLib.idle_add)
    ui_pc,              \* position of the main loop in search_result_finished
    launch_game,        \* search_result_finished's local launch_game
    cb_results,         \* search_result_finished's parameter results
    fi,                 \* index in results of the file being imported
    ci,                 \* index in results[fi] of the next rom set
    configs,            \* game configs written by write_game_config
    games_db,           \* rows added by lutris.database.games.add_game
    media,              \* slugs handed to download_lutris_media
    signals,            \* signals emitted on Game objects, in order
    log,                \* what logger.error / logger.exception recorded
    md5_calls,          \* history: the checksum calls made, in order
    lookup_calls,       \* history: the catalog lookups made, in order
    rom_calls,          \* history: the import_rom calls made, in order
    raises,             \* history: the exceptions raised, in order
    steps               \* history: the steps completed for the files, in order

vars ==
    << files, path_cache, auto_launch_button, installers, platform,
       progress_labels, error_labels, info_labels, destroyed, worker_pc,
       game_path_cache, wi, results, idle_queue, ui_pc, launch_game,
       cb_results, fi, ci, configs, games_db, media, signals, log, md5_calls, lookup_calls,
       rom_calls, raises, steps >>

dialog_vars == << files, path_cache >>

worker_vars == << worker_pc, game_path_cache, wi, results, md5_calls, lookup_calls >>

\* A step completed for a file: call is the number of the import_rom call it
\* was done in, 0 for the steps of search_checksums.
Step(filename, call, step) == [filename |-> filename, call |-> call, step |-> step]

\* An exception raised while a file was processed, and the thread it was
\* raised on.
Raised(filename, error, thread) == [filename |-> filename, error |-> error, thread |-> thread]

handler_vars == << ui_pc, launch_game, cb_results, fi, ci >>

import_vars ==
    << installers, platform, error_labels, info_labels, destroyed, configs, games_db,
       media, signals, rom_calls >>

Range(f) == { f[x] : x \in DOMAIN f }

\* A Gtk.Label: its markup and whether it is shown.
Label(markup, visible) == [markup |-> markup, visible |-> visible]

\* ImportGameDialog.__init__: the labels of get_file_labels_listbox are
\* empty, the check button is active for a single file, and the worker is
\* started on search_checksums.
Init ==
    /\ \E n \in 1..MaxFiles : files = SubSeq(AllPaths, 1, n)
    /\ path_cache \in [InstalledIds -> Range(files) \cup {OtherPath}]
    /\ auto_launch_button = (Len(files) = 1)
    /\ installers = DefaultInstallers
    /\ platform = None
    /\ progress_labels = [f \in Range(files) |-> Label("", TRUE)]
    /\ error_labels = [f \in Range(files) |-> Label(NoText, FALSE)]
    /\ info_labels = [f \in Range(files) |-> << >>]
    /\ destroyed = FALSE
    /\ worker_pc = "start"
    /\ game_path_cache = << >>
    /\ wi = 1
    /\ results = << >>
    /\ idle_queue = << >>
    /\ ui_pc = "waiting"
    /\ launch_game = FALSE
    /\ cb_results = << >>
    /\ fi = 1
    /\ ci = 1
    /\ configs = << >>
    /\ games_db = << >>
    /\ media = << >>
    /\ signals = << >>
    /\ log = << >>
    /\ md5_calls = << >>
    /\ lookup_calls = << >>
    /\ rom_calls = << >>
    /\ raises = << >>
    /\ steps = << >>

\* The user clicks the "Launch game" check button.  Nothing reads the button
\* after search_result_finished has started, so later clicks are left out.
ToggleAutoLaunch ==
    /\ ui_pc = "waiting"
    /\ auto_launch_button' = ~auto_launch_button
    /\ UNCHANGED << dialog_vars, worker_vars, import_vars, handler_vars,
                    progress_labels, idle_queue, log, raises, steps >>

(* ------------------------- search_checksums ---------------------------- *)

\* show_progress: the label update is scheduled with GLib.idle_add.
show_progress(filepath, message) ==
    [kind |-> "progress", filepath |-> filepath, message |-> message]

\* What AsyncCall schedules on the main loop when search_checksums returns
\* or raises: the callback with the result and the error.
Callback(result, error) == [kind |-> "callback", result |-> result, error |-> error]

\* Variant of InPathCache: the file is looked for among the keys of the cache,
\* the game ids, where no path is found.
InPathCacheKeys(cache, filename) == FALSE

\* filename in game_path_cache.values()
InPathCache(cache, filename) == \E game_id \in DOMAIN cache : cache[game_id] = filename

\* The loop over game_path_cache leaves the last matching game in result.
InstalledResult(cache, filename) ==
    LET game_id == CHOOSE g \in DOMAIN cache :
                     /\ cache[g] = filename
                     /\ \A h \in DOMAIN cache : cache[h] = filename => h <= g
    IN  << [name |-> GameName(game_id), game |-> game_id, roms |-> << >>] >>

\* Variant of ErrorResult: whatever was raised, the file is reported as not
\* identified.
ErrorResultNotIdentified(error) == << [error |-> NotIdentified, roms |-> << >>] >>

\* except Exception as error: result = [{"error": error, "roms": []}]
ErrorResult(error) == << [error |-> error, roms |-> << >>] >>

\* Variant of Checksum: the suffix is compared as written, without lower().
ChecksumCaseSensitive(filename) ==
    IF EndsWith(filename, DotZip)
    THEN get_md5_in_zip(filename)
    ELSE get_md5_hash(filename)

\* if filename.lower().endswith(".zip"): get_md5_in_zip else get_md5_hash
Checksum(filename) ==
    IF EndsWith(Lower(filename), DotZip)
    THEN get_md5_in_zip(filename)
    ELSE get_md5_hash(filename)

\* What the two collaborators of the else branch can do for a file: the
\* checksum raises, the lookup raises, or the lookup answers.
LookupOutcomes(md5) ==
    { [kind |-> "md5_raises", answer |-> << >>],
      [kind |-> "lookup_raises", answer |-> << >>] }
    \cup { [kind |-> "answer", answer |-> a] : a \in CatalogAnswers(md5) }

\* The exception the else branch of the loop body leaves with, NoText when
\* it leaves with a result: an empty answer raises the RuntimeError.
LookupRaised(out) ==
    CASE out.kind = "md5_raises" -> ChecksumError
      [] out.kind = "lookup_raises" -> CatalogError
      [] out.answer = << >> -> NotIdentified
      [] OTHER -> NoText

\* The value of result after the try statement of the else branch.
LookupResult(out) ==
    IF LookupRaised(out) # NoText
    THEN ErrorResult(LookupRaised(out))
    ELSE out.answer

\* game_path_cache = get_path_cache(), outside any try: when it raises,
\* AsyncCall hands the error to the callback.
SearchChecksumsStart ==
    /\ worker_pc = "start"
    /\ \/ /\ game_path_cache' = path_cache
          /\ worker_pc' = "loop"
          /\ UNCHANGED idle_queue
       \/ /\ worker_pc' = "finished"
          /\ idle_queue' = Append(idle_queue, Callback(<< >>, PathCacheError))
          /\ UNCHANGED game_path_cache
    /\ UNCHANGED << dialog_vars, import_vars, auto_launch_button, progress_labels,
                    wi, results, md5_calls, lookup_calls, handler_vars, log,
                    raises, steps >>

\* One iteration of "for filename in self.files", for a file of the cache.
SearchChecksumsInstalled ==
    /\ worker_pc = "loop"
    /\ wi <= Len(files)
    /\ LET filename == files[wi] IN
        /\ InPathCache(game_path_cache, filename)
        /\ results' = Append(results,
                [filename |-> filename,
                 result |-> InstalledResult(game_path_cache, filename)])
        /\ idle_queue' = idle_queue \o
                << show_progress(filename, MsgLookingInstalled),
                   show_progress(filename, "") >>
    /\ wi' = wi + 1
    /\ UNCHANGED << dialog_vars, import_vars, auto_launch_button, progress_labels,
                    worker_pc, game_path_cache, md5_calls, lookup_calls,
                    handler_vars, log, raises, steps >>

\* One iteration of "for filename in self.files", for any other file.
SearchChecksumsLookup ==
    /\ worker_pc = "loop"
    /\ wi <= Len(files)
    /\ LET filename == files[wi]
           md5 == Checksum(filename)
       IN
        /\ ~InPathCache(game_path_cache, filename)
        /\ md5_calls' = Append(md5_calls, md5)
        /\ \E out \in LookupOutcomes(md5) :
            /\ lookup_calls' =
                    IF out.kind = "md5_raises"
                    THEN lookup_calls
                    ELSE Append(lookup_calls,
                            [filename |-> filename, md5 |-> md5,
                             raised |-> IF out.kind = "lookup_raises"
                                        THEN CatalogError ELSE NoText,
                             answer |-> out.answer])
            /\ results' = Append(results,
                    [filename |-> filename, result |-> LookupResult(out)])
            /\ raises' = raises \o
                    (IF LookupRaised(out) = NoText
                     THEN << >>
                     ELSE << Raised(filename, LookupRaised(out), "worker") >>)
            /\ steps' = steps \o
                    (IF out.kind = "md5_raises"
                     THEN << >>
                     ELSE << Step(filename, 0, "checksum") >>)
                    \o (IF out.kind = "answer"
                        THEN << Step(filename, 0, "lookup") >>
                        ELSE << >>)
            /\ idle_queue' = idle_queue \o
                    << show_progress(filename, MsgLookingInstalled),
                       show_progress(filename, MsgChecksum) >>
                    \o (IF out.kind = "md5_raises"
                        THEN << >>
                        ELSE << show_progress(filename, MsgLookup) >>)
                    \o << show_progress(filename, "") >>
    /\ wi' = wi + 1
    /\ UNCHANGED << dialog_vars, import_vars, auto_launch_button, progress_labels,
                    worker_pc, game_path_cache, handler_vars, log >>

\* Variant of SearchChecksumsReturn: the return statement is inside the loop
\* body, so the worker can return after any file.
SearchChecksumsReturnEarly ==
    /\ worker_pc = "loop"
    /\ wi > 1
    /\ worker_pc' = "finished"
    /\ idle_queue' = Append(idle_queue, Callback(results, NoText))
    /\ UNCHANGED << dialog_vars, import_vars, auto_launch_button, progress_labels,
                    game_path_cache, wi, results, md5_calls, lookup_calls,
                    handler_vars, log, raises, steps >>

\* return results: AsyncCall schedules the callback on the main loop.
SearchChecksumsReturn ==
    /\ worker_pc = "loop"
    /\ wi > Len(files)
    /\ worker_pc' = "finished"
    /\ idle_queue' = Append(idle_queue, Callback(results, NoText))
    /\ UNCHANGED << dialog_vars, import_vars, auto_launch_button, progress_labels,
                    game_path_cache, wi, results, md5_calls, lookup_calls,
                    handler_vars, log, raises, steps >>

(* ------------------------------ main loop ------------------------------ *)

\* The lambda scheduled by show_progress, run by the main loop:
\* self.progress_labels[filepath].set_markup("<i>%s</i>" % gtk_safe(message))
IdleShowProgress ==
    /\ idle_queue # << >>
    /\ Head(idle_queue).kind = "progress"
    /\ progress_labels' =
            [progress_labels EXCEPT ![Head(idle_queue).filepath].markup =
                Head(idle_queue).message]
    /\ idle_queue' = Tail(idle_queue)
    /\ UNCHANGED << dialog_vars, worker_vars, import_vars, handler_vars,
                    auto_launch_button, log, raises, steps >>

\* "game" in rom_set
HasGame(rom_set) == "game" \in DOMAIN rom_set

\* The files of results with a rom set of an installed game.
InstalledFiles(res) ==
    { i \in 1..Len(res) : \E j \in 1..Len(res[i].result) : HasGame(res[i].result[j]) }

\* Variant of FirstInstalledGame: the last rom set with a game is launched.
LastInstalledGame(res) ==
    LET i == CHOOSE k \in InstalledFiles(res) : \A m \in InstalledFiles(res) : k >= m
        withGame == { j \in 1..Len(res[i].result) : HasGame(res[i].result[j]) }
        j == CHOOSE k \in withGame : \A m \in withGame : k >= m
    IN  res[i].result[j].game

\* The game the first pass of search_result_finished launches: the first rom
\* set with a game, in the order of results.
FirstInstalledGame(res) ==
    LET i == CHOOSE k \in InstalledFiles(res) : \A m \in InstalledFiles(res) : k <= m
        withGame == { j \in 1..Len(res[i].result) : HasGame(res[i].result[j]) }
        j == CHOOSE k \in withGame : \A m \in withGame : k <= m
    IN  res[i].result[j].game

\* game.emit(signal)
Emit(signal, game_id) == [signal |-> signal, game |-> game_id]

\* The first file from index i on with a rom set to try, or Len(res) + 1.
NextFile(res, i) ==
    LET rest == { k \in i..Len(res) : res[k].result # << >> }
    IN  IF rest = {} THEN Len(res) + 1
        ELSE CHOOSE k \in rest : \A m \in rest : k <= m

\* Variant of SearchResultFinished: the error of the handoff is logged and
\* also shown on the error label of every file.
SearchResultFinishedShowsError ==
    /\ ui_pc = "waiting"
    /\ idle_queue # << >>
    /\ Head(idle_queue).kind = "callback"
    /\ idle_queue' = Tail(idle_queue)
    /\ LET cb == Head(idle_queue) IN
        IF cb.error # NoText
        THEN /\ log' = Append(log, cb.error)
             /\ error_labels' = [f \in DOMAIN error_labels |-> Label(cb.error, TRUE)]
             /\ ui_pc' = "done"
             /\ UNCHANGED << launch_game, cb_results, fi, ci, signals, destroyed >>
        ELSE /\ UNCHANGED error_labels
             /\ launch_game' = auto_launch_button
             /\ cb_results' = cb.result
             /\ UNCHANGED log
             /\ IF auto_launch_button /\ InstalledFiles(cb.result) # {}
                THEN /\ signals' = Append(signals,
                            Emit("game-launch", FirstInstalledGame(cb.result)))
                     /\ destroyed' = TRUE
                     /\ ui_pc' = "done"
                     /\ UNCHANGED << fi, ci >>
                ELSE /\ fi' = NextFile(cb.result, 1)
                     /\ ci' = 1
                     /\ ui_pc' = IF fi' > Len(cb.result) THEN "done" ELSE "importing"
                     /\ UNCHANGED << signals, destroyed >>
    /\ UNCHANGED << dialog_vars, worker_vars, auto_launch_button, progress_labels,
                    installers, platform, info_labels, configs, games_db,
                    media, rom_calls, raises, steps >>

\* search_result_finished, up to the first import_rom call.
SearchResultFinished ==
    /\ ui_pc = "waiting"
    /\ idle_queue # << >>
    /\ Head(idle_queue).kind = "callback"
    /\ idle_queue' = Tail(idle_queue)
    /\ LET cb == Head(idle_queue) IN
        IF cb.error # NoText
        THEN /\ log' = Append(log, cb.error)
             /\ ui_pc' = "done"
             /\ UNCHANGED << launch_game, cb_results, fi, ci, signals, destroyed >>
        ELSE /\ launch_game' = auto_launch_button
             /\ cb_results' = cb.result
             /\ UNCHANGED log
             /\ IF auto_launch_button /\ InstalledFiles(cb.result) # {}
                THEN /\ signals' = Append(signals,
                            Emit("game-launch", FirstInstalledGame(cb.result)))
                     /\ destroyed' = TRUE
                     /\ ui_pc' = "done"
                     /\ UNCHANGED << fi, ci >>
                ELSE /\ fi' = NextFile(cb.result, 1)
                     /\ ci' = 1
                     /\ ui_pc' = IF fi' > Len(cb.result) THEN "done" ELSE "importing"
                     /\ UNCHANGED << signals, destroyed >>
    /\ UNCHANGED << dialog_vars, worker_vars, auto_launch_button, progress_labels,
                    installers, platform, error_labels, info_labels, configs, games_db,
                    media, rom_calls, raises, steps >>

(* ------------------------------ import_rom ----------------------------- *)

\* What the collaborators of add_game can do in one call: all succeed, the
\* media download fails in the background, write_game_config raises, or the
\* database insert raises.
PersistOutcomes == {"ok", "media_fails", "write_raises", "insert_raises"}

\* copy.deepcopy: the copy is a value of its own.
deepcopy(template) == template

\* The loop of add_game over installer["game"]: every value equal to "rom"
\* is replaced by the file path.
FillRom(installer, filepath) ==
    [installer EXCEPT !.game =
        [key \in DOMAIN installer.game |->
            IF installer.game[key] = RomPlaceholder
            THEN filepath
            ELSE installer.game[key]]]

\* Variant of StoreAfterFill: the installer is the template itself, not a
\* copy, so the fill is done in the store.
StoreAfterFillInPlace(store, self_platform, filled) ==
    [store EXCEPT ![self_platform] = filled]

\* DEFAULT_INSTALLERS after add_game filled its installer: the fill is done
\* on the deep copy, so the store keeps its templates.
StoreAfterFill(store, self_platform, filled) == store

\* lutris.config.write_game_config returns the path of the config it wrote,
\* a new one for every call.
write_game_config(slug, n_written) == [slug |-> slug, n |-> n_written + 1]

\* lutris.database.games.add_game returns the id of the row it inserted.
NewGameId(n_rows) == NumInstalled + n_rows + 1

\* lutris.services.lutris.download_lutris_media: the download is started and
\* left to itself; its failure does not come back to the caller.
download_lutris_media(slug, out) == [slug |-> slug, failed |-> out = "media_fails"]

\* Variant of ReturnGameId: a failed download leaves add_game with an
\* exception.
ReturnGameIdOrRaise(added, download) ==
    [added EXCEPT !.media = << download >>,
                  !.steps = @ \o << "media" >>,
                  !.raised = IF download.failed
                             THEN Message("MediaError: download failed", "")
                             ELSE NoText]

\* The end of add_game: download_lutris_media(slug) is called for its effect
\* only, and game_id is returned.
ReturnGameId(added, download) ==
    [added EXCEPT !.media = << download >>, !.steps = @ \o << "media" >>]

\* Variant of TemplateOf: a platform without a template gets the template of
\* the first platform.
TemplateOrFirst(store, self_platform) ==
    IF self_platform \in DOMAIN store
    THEN << store[self_platform] >>
    ELSE << store["platform-one"] >>

\* DEFAULT_INSTALLERS[self.platform]: the template in a sequence of one, the
\* empty sequence for the KeyError.
TemplateOf(store, self_platform) ==
    IF self_platform \in DOMAIN store
    THEN << store[self_platform] >>
    ELSE << >>

\* Variant of InsertFailed: the config written for the game is removed when
\* the insert fails.
InsertFailedRollback(copied, written) == [copied EXCEPT !.raised = InsertError]

\* add_game when the database insert raises: the exception leaves add_game
\* after write_game_config has written the config.
InsertFailed(copied, written) ==
    [copied EXCEPT !.raised = InsertError,
                   !.configs = written,
                   !.steps = @ \o << "config" >>]

\* What add_game does: raised is the exception it leaves with (NoText when
\* it returns game_id), looked_up tells that DEFAULT_INSTALLERS was indexed,
\* and configs, rows and media are what it added before leaving.
add_game(rom_set, filepath, self_platform, store, out, n_written, n_rows) ==
    LET name == clean_rom_name(rom_set.name)
        slug == slugify(name)
        none == [raised |-> NoText, looked_up |-> TRUE, store |-> store,
                 configs |-> << >>, rows |-> << >>, media |-> << >>,
                 game_id |-> 0, steps |-> << >>]
        found == TemplateOf(store, self_platform)
    IN  IF found = << >>
        THEN [none EXCEPT !.raised = NoDefaultInstaller(self_platform)]
        ELSE
            LET installer == FillRom(deepcopy(found[1]), filepath)
                configpath == write_game_config(slug, n_written)
                written == << [configpath |-> configpath, config |-> installer] >>
                game_id == NewGameId(n_rows)
                row == [id |-> game_id,
                        name |-> name,
                        runner |-> installer.runner,
                        slug |-> slug,
                        directory |-> "",
                        installed |-> 1,
                        installer_slug |-> << slug, installer.runner >>,
                        configpath |-> configpath]
                after == StoreAfterFill(store, self_platform, installer)
                copied == [none EXCEPT !.store = after, !.steps = << "template" >>]
            IN  CASE out = "write_raises" ->
                        [copied EXCEPT !.raised = ConfigWriteError]
                  [] out = "insert_raises" ->
                        InsertFailed(copied, written)
                  [] OTHER ->
                        ReturnGameId(
                            [copied EXCEPT !.configs = written,
                                           !.rows = << row >>,
                                           !.game_id = game_id,
                                           !.steps = @ \o << "config", "insert" >>],
                            download_lutris_media(slug, out))

\* Variant of display_game_info: the check of self.platform is missing.
display_game_info_unchecked(rom_set, checksum) ==
    [info |-> << [checksum |-> checksum,
                  description |-> rom_set.name,
                  category |-> rom_set.category.name] >>,
     platform |-> guess_platform(rom_set),
     raised |-> NoText]

\* display_game_info: the labels it sets, the value it leaves in
\* self.platform, and the exception it raises for an unknown platform.
display_game_info(rom_set, checksum) ==
    LET category == rom_set.category.name
        guessed == guess_platform(rom_set)
    IN  [info |-> << [checksum |-> checksum,
                      description |-> rom_set.name,
                      category |-> category] >>,
         platform |-> guessed,
         raised |-> IF guessed = None THEN UnknownPlatform(category) ELSE NoText]

\* Variant of AssignPlatform: the platform is resolved once and kept for the
\* files and rom sets that follow.
AssignPlatformOnce(self_platform, guessed) ==
    IF self_platform = None THEN guessed ELSE self_platform

\* self.platform after "self.platform = guess_platform(rom_set)": the value
\* add_game reads when it indexes DEFAULT_INSTALLERS.
AssignPlatform(self_platform, guessed) == guessed

\* Variant of InstalledSignals: the game is launched before it is announced.
LaunchThenInstalled(game_id, launch) ==
    (IF launch THEN << Emit("game-launch", game_id) >> ELSE << >>)
    \o << Emit("game-installed", game_id), Emit("game-updated", game_id) >>

\* The signals import_rom emits for the game it installed.
InstalledSignals(game_id, launch) ==
    << Emit("game-installed", game_id), Emit("game-updated", game_id) >>
    \o (IF launch THEN << Emit("game-launch", game_id) >> ELSE << >>)

\* The names of a sequence of signals.
SignalNames(emitted) == [n \in DOMAIN emitted |-> emitted[n].signal]

\* One call of import_rom: ret is what it returns, raised the exception its
\* except clause caught (NoText when there was none), and the other fields
\* are what the call did on the way.
import_rom(rom_set, filename, launch, out, self_platform, store, n_written, n_rows) ==
    LET quiet == [ret |-> FALSE, raised |-> NoText, guessed |-> FALSE,
                  looked_up |-> FALSE, platform |-> self_platform,
                  store |-> store, info |-> << >>, configs |-> << >>,
                  rows |-> << >>, media |-> << >>, signals |-> << >>,
                  destroyed |-> FALSE, steps |-> << >>]
    IN  IF "error" \in DOMAIN rom_set
        THEN [quiet EXCEPT !.raised = rom_set.error]
        ELSE IF rom_set.roms = << >>
        THEN quiet
        ELSE
            LET shown == display_game_info(rom_set, rom_set.roms[1].md5)
                seen == [quiet EXCEPT !.guessed = TRUE,
                                      !.info = shown.info,
                                      !.platform =
                                          AssignPlatform(self_platform, shown.platform)]
            IN  IF shown.raised # NoText
                THEN [seen EXCEPT !.raised = shown.raised]
                ELSE
                    LET added == add_game(rom_set, filename, seen.platform, store,
                                          out, n_written, n_rows)
                        tried == [seen EXCEPT !.steps = << "platform" >> \o added.steps,
                                              !.looked_up = added.looked_up,
                                              !.store = added.store,
                                              !.configs = added.configs,
                                              !.rows = added.rows,
                                              !.media = added.media]
                    IN  IF added.raised # NoText
                        THEN [tried EXCEPT !.raised = added.raised]
                        ELSE [tried EXCEPT
                                !.ret = TRUE,
                                !.signals = InstalledSignals(added.game_id, launch),
                                !.steps = @ \o SignalNames(
                                    InstalledSignals(added.game_id, launch)),
                                !.destroyed = launch]

\* The error label after import_rom: its except clause shows str(ex).
ErrorLabelAfter(label, raised) ==
    IF raised # NoText THEN Label(raised, TRUE) ELSE label

\* Variant of NextImport: no break after a successful import, the next rom
\* set of the same file is tried as well.
NextImportNoBreak(res, i, j, ret, launch) ==
    IF ret /\ launch
    THEN << Len(res) + 1, 1 >>
    ELSE IF j < Len(res[i].result)
         THEN << i, j + 1 >>
         ELSE << NextFile(res, i + 1), 1 >>

\* Variant of NextImport: a rom set that could not be imported ends the
\* handler.
NextImportStopOnFailure(res, i, j, ret, launch) ==
    IF ret
    THEN IF launch
         THEN << Len(res) + 1, 1 >>
         ELSE << NextFile(res, i + 1), 1 >>
    ELSE << Len(res) + 1, 1 >>

\* Variant of NextImport: the handler does not return after a launched
\* import and goes on with the next file.
NextImportNoReturn(res, i, j, ret, launch) ==
    IF ret
    THEN << NextFile(res, i + 1), 1 >>
    ELSE IF j < Len(res[i].result)
         THEN << i, j + 1 >>
         ELSE << NextFile(res, i + 1), 1 >>

\* Where the loops of search_result_finished go after import_rom returned
\* ret at rom set j of file i: <<file, rom set>>, file Len(res) + 1 when the
\* handler returns.
NextImport(res, i, j, ret, launch) ==
    IF ret
    THEN IF launch
         THEN << Len(res) + 1, 1 >>
         ELSE << NextFile(res, i + 1), 1 >>
    ELSE IF j < Len(res[i].result)
         THEN << i, j + 1 >>
         ELSE << NextFile(res, i + 1), 1 >>

\* One turn of the inner loop of search_result_finished: the import_rom call
\* for rom set ci of file fi, and the move to the next one.
ImportRom ==
    /\ ui_pc = "importing"
    /\ \E out \in PersistOutcomes :
        LET filename == cb_results[fi].filename
            rom_set == cb_results[fi].result[ci]
            done == import_rom(rom_set, filename, launch_game, out, platform,
                               installers, Len(configs), Len(games_db))
            next == NextImport(cb_results, fi, ci, done.ret, launch_game)
        IN
            /\ progress_labels' = [progress_labels EXCEPT ![filename].visible = FALSE]
            /\ platform' = done.platform
            /\ installers' = done.store
            /\ info_labels' =
                    IF done.info = << >> THEN info_labels
                    ELSE [info_labels EXCEPT ![filename] = done.info]
            /\ configs' = configs \o done.configs
            /\ games_db' = games_db \o done.rows
            /\ media' = media \o done.media
            /\ signals' = signals \o done.signals
            /\ destroyed' = (destroyed \/ done.destroyed)
            /\ error_labels' =
                    [error_labels EXCEPT ![filename] = ErrorLabelAfter(@, done.raised)]
            /\ log' = IF done.raised # NoText THEN Append(log, done.raised) ELSE log
            /\ raises' = raises \o
                    (IF done.raised = NoText \/ "error" \in DOMAIN rom_set
                     THEN << >>
                     ELSE << Raised(filename, done.raised, "main") >>)
            /\ steps' = steps \o
                    [n \in DOMAIN done.steps |->
                        Step(filename, Len(rom_calls) + 1, done.steps[n])]
            /\ rom_calls' = Append(rom_calls,
                    [filename |-> filename, file |-> fi, index |-> ci,
                     rom_set |-> rom_set, ret |-> done.ret,
                     raised |-> done.raised, guessed |-> done.guessed,
                     looked_up |-> done.looked_up,
                     wrote |-> done.configs # << >>,
                     inserted |-> done.rows # << >>])
            /\ fi' = next[1]
            /\ ci' = next[2]
            /\ ui_pc' = IF next[1] > Len(cb_results) THEN "done" ELSE "importing"
    /\ UNCHANGED << files, path_cache, worker_vars, auto_launch_button,
                    idle_queue, launch_game, cb_results >>

Next ==
    \/ ToggleAutoLaunch
    \/ SearchChecksumsStart
    \/ SearchChecksumsInstalled
    \/ SearchChecksumsLookup
    \/ SearchChecksumsReturn
    \/ IdleShowProgress
    \/ SearchResultFinished
    \/ ImportRom

Spec == Init /\ [][Next]_vars

(* ------------------------------ properties ----------------------------- *)

\* The file is the path of a game of the library.
Cached(f) == \E game_id \in DOMAIN path_cache : path_cache[game_id] = f

\* The import_rom calls made for a file.
CallsOf(f) == { k \in DOMAIN rom_calls : rom_calls[k].filename = f }

\* import_rom returned True for the file.
Succeeded(f) == \E k \in CallsOf(f) : rom_calls[k].ret

\* The configs written for a file: those that hold its path.
ConfigsOf(f) ==
    { c \in DOMAIN configs :
        \E key \in DOMAIN configs[c].config.game : configs[c].config.game[key] = f }

\* The game rows inserted for a file: those whose config was written for it.
RowsOf(f) ==
    { k \in DOMAIN games_db :
        \E c \in ConfigsOf(f) : configs[c].configpath = games_db[k].configpath }

\* The signals emitted for the games inserted for a file.
SignalsOf(f) ==
    { n \in DOMAIN signals : \E k \in RowsOf(f) : signals[n].game = games_db[k].id }

\* The index of the first file of the request that is in the path cache.
FirstCached ==
    CHOOSE i \in DOMAIN files :
        /\ Cached(files[i])
        /\ \A m \in DOMAIN files : Cached(files[m]) => i <= m

\* C1: in every state, a file for which import_rom returned True has exactly
\* one game row, and a file whose path is a value of the path cache has none.
C1_OneRecordPerImportedFile ==
    \A f \in Range(files) :
        /\ Succeeded(f) => Cardinality(RowsOf(f)) = 1
        /\ Cached(f) => RowsOf(f) = {}

\* C1 witness: a finished batch where a cached file went through import_rom
\* and another file was imported by its second rom set.
C1_Witness ==
    /\ ui_pc = "done"
    /\ \E f, g \in Range(files) :
        /\ Succeeded(f)
        /\ Cardinality(CallsOf(f)) = 2
        /\ Cardinality(RowsOf(f)) = 1
        /\ Cached(g)
        /\ CallsOf(g) # {}

\* C2: for a file whose path is in the path cache no checksum is computed and
\* no catalog lookup is made, and the result the worker stores for it is the
\* single rom set of a library game installed from that path.
C2_CachedFileSkipsChecksumAndLookup ==
    \A i \in DOMAIN files :
        Cached(files[i]) =>
            /\ \A k \in DOMAIN md5_calls : md5_calls[k].of # files[i]
            /\ \A k \in DOMAIN lookup_calls : lookup_calls[k].filename # files[i]
            /\ i <= Len(results) =>
                /\ results[i].filename = files[i]
                /\ Len(results[i].result) = 1
                /\ "game" \in DOMAIN results[i].result[1]
                /\ path_cache[results[i].result[1].game] = files[i]

\* C2 witness: the worker has finished a batch with a looked-up file followed
\* by a cached one.
C2_Witness ==
    /\ worker_pc = "finished"
    /\ Len(results) = 2
    /\ ~Cached(files[1])
    /\ Cached(files[2])
    /\ Len(md5_calls) = 1
    /\ Len(lookup_calls) = 1

\* C3: once search_result_finished has read an active launch button for a
\* batch with a cached file, the handler is over, the only signal emitted is
\* game-launch for a game installed from the first cached file, and nothing
\* was imported: no import_rom call, config, game row, media download or
\* error label.
C3_InstalledGameLaunchedFirst ==
    (ui_pc # "waiting" /\ launch_game /\ \E f \in Range(files) : Cached(f)) =>
        /\ ui_pc = "done"
        /\ Len(signals) = 1
        /\ signals[1].signal = "game-launch"
        /\ path_cache[signals[1].game] = files[FirstCached]
        /\ rom_calls = << >>
        /\ configs = << >>
        /\ games_db = << >>
        /\ media = << >>
        /\ \A f \in Range(files) : ~error_labels[f].visible

\* C3 witness: an importable file comes first, a cached file second, and the
\* cached file's game was launched.
C3_Witness ==
    /\ ui_pc = "done"
    /\ launch_game
    /\ Len(files) = 2
    /\ ~Cached(files[1])
    /\ Cached(files[2])
    /\ Len(cb_results) = 2
    /\ "category" \in DOMAIN cb_results[1].result[1]
    /\ cb_results[1].result[1].roms # << >>
    /\ cb_results[1].result[1].category.name = "Console One"
    /\ Len(signals) = 1
    /\ destroyed

\* The file ended as Imported: a game row and no error shown.
Imported(f) == RowsOf(f) # {} /\ ~error_labels[f].visible

\* The file ended as Failed: an error shown and no game row.
Failed(f) == error_labels[f].visible /\ RowsOf(f) = {}

\* Nothing of the import steps was done for the file.
Untouched(f) ==
    /\ CallsOf(f) = {}
    /\ ConfigsOf(f) = {}
    /\ RowsOf(f) = {}
    /\ SignalsOf(f) = {}
    /\ ~error_labels[f].visible

\* The handler returned after the import loop of an auto-launch batch
\* without a cached file in which some import succeeded.
LaunchedFirstImport ==
    /\ ui_pc = "done"
    /\ launch_game
    /\ \A f \in Range(files) : ~Cached(f)
    /\ \E f \in Range(files) : Succeeded(f)

\* The index of the first file for which import_rom returned True.
FirstSucceeded ==
    CHOOSE i \in DOMAIN files :
        /\ Succeeded(files[i])
        /\ \A m \in DOMAIN files : Succeeded(files[m]) => i <= m

\* C4 (as claimed): with auto-launch and no cached file, the first file whose
\* import succeeds is the only one with a game row and its game is launched,
\* every later file is untouched, and every earlier file went through
\* import_rom and is marked Failed.
C4_FirstImportOnlyAndEarlierFailed ==
    LaunchedFirstImport =>
        /\ Len(games_db) = 1
        /\ RowsOf(files[FirstSucceeded]) = {1}
        /\ signals[Len(signals)] = Emit("game-launch", games_db[1].id)
        /\ \A i \in DOMAIN files :
            /\ i > FirstSucceeded => Untouched(files[i])
            /\ i < FirstSucceeded => CallsOf(files[i]) # {} /\ Failed(files[i])

\* C5 (as claimed): when the handler has returned, every file outside the path
\* cache that was offered to import_rom is either Imported or Failed, and not
\* both.
C5_ImportedXorFailed ==
    ui_pc = "done" =>
        \A f \in Range(files) :
            (~Cached(f) /\ CallsOf(f) # {}) =>
                /\ Imported(f) \/ Failed(f)
                /\ ~(Imported(f) /\ Failed(f))

\* C6 (as claimed): when the handler has returned from a batch without
\* auto-launch, every file outside the path cache is Imported or Failed, and
\* no game-launch signal was emitted.
C6_AllProcessedNoLaunch ==
    (ui_pc = "done" /\ ~launch_game /\ cb_results # << >>) =>
        /\ \A f \in Range(files) : Cached(f) \/ Imported(f) \/ Failed(f)
        /\ \A n \in DOMAIN signals : signals[n].signal # "game-launch"

\* The exceptions raised for a file, in the order they were raised.
RaisesOf(f) == SelectSeq(raises, LAMBDA r : r.filename = f)

\* The auto-launch exit was taken before file i was reached: an installed
\* game was launched, or the game imported from an earlier file was.
ExitedBefore(i) ==
    /\ launch_game
    /\ \/ \E f \in Range(files) : Cached(f)
       \/ \E m \in 1..(i - 1) : Succeeded(files[m])

UnknownPlatformCall(k) ==
    /\ rom_calls[k].guessed
    /\ rom_calls[k].rom_set.category.name = "Mystery Box"

\* C8: an import_rom call for a rom set of an unknown platform ends in the
\* unknown-platform error without a DEFAULT_INSTALLERS access, a config write
\* or a game row, and while it is the file's last call the file's error label
\* shows that error.
C8_UnknownPlatformFails ==
    \A k \in DOMAIN rom_calls :
        UnknownPlatformCall(k) =>
            /\ ~rom_calls[k].ret
            /\ rom_calls[k].raised = UnknownPlatform("Mystery Box")
            /\ ~rom_calls[k].looked_up
            /\ ~rom_calls[k].wrote
            /\ ~rom_calls[k].inserted
            /\ (\A m \in CallsOf(rom_calls[k].filename) : m <= k) =>
                    error_labels[rom_calls[k].filename] =
                        Label(UnknownPlatform("Mystery Box"), TRUE)

\* C8 witness: the single rom set of a file is of an unknown platform and the
\* handler has returned.
C8_Witness ==
    /\ ui_pc = "done"
    /\ Len(rom_calls) = 1
    /\ UnknownPlatformCall(1)
    /\ Failed(rom_calls[1].filename)
    /\ configs = << >>

C10_LookupFailureNotIdentified ==
    \A k \in DOMAIN lookup_calls :
        (/\ lookup_calls[k].raised # NoText \/ lookup_calls[k].answer = << >>
         /\ CallsOf(lookup_calls[k].filename) # {}) =>
            error_labels[lookup_calls[k].filename] = Label(NotIdentified, TRUE)

\* C10 (amended): a file whose lookup answered nothing shows the
\* not-identified message once it has been through import_rom, and a file
\* whose lookup raised shows the message of the exception the lookup raised.
C10_LookupFailureMessages ==
    \A k \in DOMAIN lookup_calls :
        CallsOf(lookup_calls[k].filename) # {} =>
            /\ (lookup_calls[k].raised = NoText /\ lookup_calls[k].answer = << >>) =>
                    error_labels[lookup_calls[k].filename] = Label(NotIdentified, TRUE)
            /\ lookup_calls[k].raised # NoText =>
                    /\ lookup_calls[k].raised # NotIdentified
                    /\ error_labels[lookup_calls[k].filename] =
                            Label(lookup_calls[k].raised, TRUE)

\* C10 witness: the lookup of one file raised and the lookup of another
\* answered nothing, and both files show their error.
C10_Witness ==
    /\ ui_pc = "done"
    /\ Len(lookup_calls) = 2
    /\ lookup_calls[1].raised # NoText
    /\ lookup_calls[2].raised = NoText
    /\ lookup_calls[2].answer = << >>
    /\ Failed(files[1])
    /\ Failed(files[2])

\* The callbacks of AsyncCall waiting in the main loop's queue.
QueuedCallbacks == { n \in DOMAIN idle_queue : idle_queue[n].kind = "callback" }

\* The map has one entry per file of the request, in request order, each
\* with at least one rom set.
CompleteMap(res) ==
    /\ Len(res) = Len(files)
    /\ \A i \in DOMAIN files : res[i].filename = files[i] /\ res[i].result # << >>

\* Nothing was persisted, emitted or shown by the import yet.
NothingImported ==
    /\ rom_calls = << >>
    /\ configs = << >>
    /\ games_db = << >>
    /\ media = << >>
    /\ signals = << >>
    /\ ~destroyed
    /\ \A f \in Range(files) : ~error_labels[f].visible /\ info_labels[f] = << >>

\* The step is one of the worker thread.
WorkerStep == worker_pc' # worker_pc \/ wi' # wi

\* The step persists, emits or launches.
ImportStep ==
    \/ configs' # configs
    \/ games_db' # games_db
    \/ media' # media
    \/ signals' # signals
    \/ destroyed' # destroyed

\* C11: the callback is scheduled once, when the worker has left the loop over
\* all the files, and a callback without an error carries the complete map in
\* request order; nothing is imported while the main loop still waits for the
\* callback; a step that persists, emits or launches is a step of the handler
\* and not of the worker; and a worker step leaves the labels, the button and
\* everything the import writes unchanged, it only appends to the idle queue.
C11_HandoffOnceAfterWorker ==
    /\ [](/\ Cardinality(QueuedCallbacks) + (IF ui_pc = "waiting" THEN 0 ELSE 1)
                = (IF worker_pc = "finished" THEN 1 ELSE 0)
          /\ \A n \in QueuedCallbacks :
                idle_queue[n].error = NoText =>
                    /\ wi > Len(files)
                    /\ idle_queue[n].result = results
                    /\ CompleteMap(idle_queue[n].result)
          /\ (ui_pc # "waiting" /\ game_path_cache # << >>) =>
                cb_results = results /\ CompleteMap(cb_results)
          /\ ui_pc = "waiting" => NothingImported)
    /\ [][/\ ImportStep => (~WorkerStep /\ worker_pc = "finished" /\ ui_pc' # "waiting")
          /\ WorkerStep =>
                /\ UNCHANGED << import_vars, handler_vars, progress_labels,
                                auto_launch_button, log >>
                /\ \E added \in SeqsUpTo(
                        { idle_queue'[n] : n \in DOMAIN idle_queue' }, 4) :
                        idle_queue' = idle_queue \o added]_vars

\* C11 witness: the handler received the map of two files and imported a
\* game from it.
C11_Witness ==
    /\ ui_pc = "done"
    /\ Len(files) = 2
    /\ CompleteMap(cb_results)
    /\ idle_queue = << >>
    /\ games_db # << >>
    /\ Len(md5_calls) = 2

\* The names of the steps of a sequence of steps.
StepNames(done) == [n \in DOMAIN done |-> done[n].step]

\* The steps completed in import_rom call k, and those completed by the
\* worker for a file.
StepsOfCall(k) == SelectSeq(steps, LAMBDA e : e.call = k)

WorkerStepsOf(f) == SelectSeq(steps, LAMBDA e : e.call = 0 /\ e.filename = f)

\* The steps with the given names.
StepsNamed(names) == SelectSeq(steps, LAMBDA e : e.step \in names)

IsPrefix(a, b) == Len(a) <= Len(b) /\ SubSeq(b, 1, Len(a)) = a

\* The order of the steps of one import_rom call that imports.
ImportOrder ==
    << "platform", "template", "config", "insert", "media",
       "game-installed", "game-updated" >>
    \o (IF launch_game THEN << "game-launch" >> ELSE << >>)

\* C12: the steps recorded are the ones the state shows (configs, rows, media
\* downloads and signals); the steps of every import_rom call are a prefix of
\* platform, template, config, insert, media, game-installed, game-updated
\* and, with auto-launch, game-launch, and all of them when the call returned
\* True, after the file's checksum and lookup; the worker's steps come before
\* those of the handler; and every game-installed or game-updated signal is
\* for a game that has its row.
C12_StepsInOrder ==
    /\ Len(StepsNamed({"config"})) = Len(configs)
    /\ Len(StepsNamed({"insert"})) = Len(games_db)
    /\ Len(StepsNamed({"media"})) = Len(media)
    /\ rom_calls # << >> =>
            StepNames(StepsNamed({"game-installed", "game-updated", "game-launch"}))
                = SignalNames(signals)
    /\ \A k \in DOMAIN rom_calls :
            /\ IsPrefix(StepNames(StepsOfCall(k)), ImportOrder)
            /\ \A n \in DOMAIN StepsOfCall(k) :
                    StepsOfCall(k)[n].filename = rom_calls[k].filename
            /\ rom_calls[k].ret =>
                    /\ StepNames(StepsOfCall(k)) = ImportOrder
                    /\ StepNames(WorkerStepsOf(rom_calls[k].filename))
                            = << "checksum", "lookup" >>
    /\ \A f \in Range(files) :
            IsPrefix(StepNames(WorkerStepsOf(f)), << "checksum", "lookup" >>)
    /\ \A n, m \in DOMAIN steps :
            n < m => steps[n].call <= steps[m].call /\ steps[m].call <= Len(rom_calls)
    /\ \A n \in DOMAIN signals :
            signals[n].signal \in {"game-installed", "game-updated"} =>
                \E k \in DOMAIN games_db : games_db[k].id = signals[n].game

\* C12 witness: with auto-launch, the first rom set of a file got as far as
\* its config and the second one was imported and launched.
C12_Witness ==
    /\ ui_pc = "done"
    /\ launch_game
    /\ Len(rom_calls) = 2
    /\ StepNames(StepsOfCall(1)) = << "platform", "template", "config" >>
    /\ rom_calls[2].ret
    /\ Len(StepsOfCall(2)) = 8
    /\ Len(signals) = 3

\* The import_rom call resolved the platform of a rom set whose platform has
\* no default installer.
NoTemplateCall(k) ==
    /\ rom_calls[k].guessed
    /\ rom_calls[k].rom_set.category.name = "Console Three"

\* C13: an import_rom call for a rom set whose platform has no default
\* installer ends in the no-default-installer error after the platform step,
\* without a config, a game row, a media download or a signal; no config, row
\* or download of that game exists; and while the call is the file's last one
\* the file's error label shows that error.
C13_NoTemplateFails ==
    /\ \A k \in DOMAIN rom_calls :
        NoTemplateCall(k) =>
            /\ ~rom_calls[k].ret
            /\ rom_calls[k].raised = NoDefaultInstaller("platform-three")
            /\ ~rom_calls[k].wrote
            /\ ~rom_calls[k].inserted
            /\ StepNames(StepsOfCall(k)) = << "platform" >>
            /\ (\A m \in CallsOf(rom_calls[k].filename) : m <= k) =>
                    error_labels[rom_calls[k].filename] =
                        Label(NoDefaultInstaller("platform-three"), TRUE)
    /\ \A c \in DOMAIN configs : configs[c].configpath.slug # "game-three"
    /\ \A k \in DOMAIN games_db : games_db[k].name # "Game Three"
    /\ \A k \in DOMAIN media : media[k].slug # "game-three"

\* C13 witness: the single rom set of a file is of a platform without a
\* default installer and the handler has returned.
C13_Witness ==
    /\ ui_pc = "done"
    /\ Len(rom_calls) = 1
    /\ NoTemplateCall(1)
    /\ rom_calls[1].looked_up
    /\ Failed(rom_calls[1].filename)
    /\ configs = << >>
    /\ signals = << >>

\* The import_rom calls that wrote a config, in order.
WroteCalls == SelectSeq(rom_calls, LAMBDA c : c.wrote)

\* C14: DEFAULT_INSTALLERS is what it was when the dialog opened, every
\* template still holds the placeholder, and the k-th config written is the
\* template of its rom set's runner with the path of the file of the k-th
\* writing call in the placeholder's place and the path of no other file.
C14_TemplatesUnchanged ==
    /\ installers = DefaultInstallers
    /\ \A p \in DOMAIN installers : installers[p].game.main_file = RomPlaceholder
    /\ Len(WroteCalls) = Len(configs)
    /\ \A k \in DOMAIN configs :
        LET config == configs[k].config
            call == WroteCalls[k]
        IN  /\ config.game.main_file = call.filename
            /\ \A key \in DOMAIN config.game :
                    \A f \in Range(files) \ {call.filename} : config.game[key] # f
            /\ \E p \in DOMAIN DefaultInstallers :
                    /\ config.runner = DefaultInstallers[p].runner
                    /\ config.game.core = DefaultInstallers[p].game.core

\* C14 witness: two files of the same platform were imported one after the
\* other, each with its own path in its config.
C14_Witness ==
    /\ ui_pc = "done"
    /\ Len(games_db) = 2
    /\ Len(configs) = 2
    /\ games_db[1].runner = games_db[2].runner
    /\ configs[1].config.game.main_file = files[1]
    /\ configs[2].config.game.main_file = files[2]

\* The worker ended before its first file: get_path_cache raised, and the
\* handoff carries the error.
HandoffError == worker_pc = "finished" /\ wi = 1

\* C15: when the handoff carries an error, the handler logs it and does
\* nothing else: nothing is imported, launched or shown for any file, before
\* and after the handler ran; without such an error the handler logs nothing.
C15_HandoffErrorOnlyLogged ==
    /\ HandoffError =>
        /\ NothingImported
        /\ launch_game = FALSE
        /\ cb_results = << >>
        /\ \A f \in Range(files) :
                /\ progress_labels[f] = Label("", TRUE)
                /\ error_labels[f] = Label(NoText, FALSE)
        /\ idle_queue = << >> => ui_pc = "done" /\ log = << PathCacheError >>
        /\ idle_queue # << >> => ui_pc = "waiting" /\ log = << >>
    /\ ~HandoffError => PathCacheError \notin Range(log)

\* C15 witness: the handler has run on a handoff with an error, for a batch of
\* two files.
C15_Witness ==
    /\ HandoffError
    /\ Len(files) = 2
    /\ ui_pc = "done"
    /\ log = << PathCacheError >>

(* ------------------- the checksum of single files ---------------------- *)

\* File names for the choice between the two checksum functions: the suffix
\* in lower, upper and mixed case, as the whole name, inside the name, cut
\* short and followed by more.
ChecksumPaths ==
    Range(AllPaths) \cup
    { <<"e", ".", "Z", "I", "P">>,
      <<".", "z", "I", "p">>,
      <<"z", "i", "p">>,
      <<"f", ".", "z", "i">>,
      <<"g", ".", "z", "i", "p", "x">>,
      <<"h", "Z", "I", "P">> }

\* The names of ChecksumPaths that end in ".zip" in any case, one by one.
ZipNames ==
    { <<"a", ".", "Z", "i", "p">>,
      <<"c", ".", "z", "i", "p">>,
      <<"e", ".", "Z", "I", "P">>,
      <<".", "z", "I", "p">> }

\* ImportGameDialog.__init__ for one file of ChecksumPaths.
InitChecksum ==
    /\ \E p \in ChecksumPaths : files = << p >>
    /\ path_cache \in [InstalledIds -> Range(files) \cup {OtherPath}]
    /\ auto_launch_button = (Len(files) = 1)
    /\ installers = DefaultInstallers
    /\ platform = None
    /\ progress_labels = [f \in Range(files) |-> Label("", TRUE)]
    /\ error_labels = [f \in Range(files) |-> Label(NoText, FALSE)]
    /\ info_labels = [f \in Range(files) |-> << >>]
    /\ destroyed = FALSE
    /\ worker_pc = "start"
    /\ game_path_cache = << >>
    /\ wi = 1
    /\ results = << >>
    /\ idle_queue = << >>
    /\ ui_pc = "waiting"
    /\ launch_game = FALSE
    /\ cb_results = << >>
    /\ fi = 1
    /\ ci = 1
    /\ configs = << >>
    /\ games_db = << >>
    /\ media = << >>
    /\ signals = << >>
    /\ log = << >>
    /\ md5_calls = << >>
    /\ lookup_calls = << >>
    /\ rom_calls = << >>
    /\ raises = << >>
    /\ steps = << >>

SpecChecksum == InitChecksum /\ [][Next]_vars

\* The checksum calls made for a file.
Md5CallsOf(f) == SelectSeq(md5_calls, LAMBDA m : m.of = f)

\* The worker is past the file at position i of the batch.
WorkerPast(i) == worker_pc # "start" /\ ~HandoffError /\ i < wi

\* C16: a checksum is computed with get_md5_in_zip exactly for a name that
\* ends in ".zip" in any case and with get_md5_hash for every other name, the
\* lookup is sent that checksum of that file, and a file the worker is past
\* has had exactly one checksum call if it is not cached and none if it is.
C16_ZipChecksumBySuffix ==
    /\ \A k \in DOMAIN md5_calls :
        /\ md5_calls[k].of \in Range(files)
        /\ md5_calls[k].fn \in {"get_md5_in_zip", "get_md5_hash"}
        /\ md5_calls[k].fn = "get_md5_in_zip" <=> md5_calls[k].of \in ZipNames
    /\ \A k \in DOMAIN lookup_calls :
        /\ lookup_calls[k].md5.of = lookup_calls[k].filename
        /\ lookup_calls[k].md5.fn =
                IF lookup_calls[k].filename \in ZipNames
                THEN "get_md5_in_zip" ELSE "get_md5_hash"
        /\ \E m \in DOMAIN md5_calls : md5_calls[m] = lookup_calls[k].md5
    /\ \A i \in DOMAIN files :
        /\ Len(Md5CallsOf(files[i])) <= 1
        /\ Cached(files[i]) => Md5CallsOf(files[i]) = << >>
        /\ WorkerPast(i) /\ ~Cached(files[i]) => Len(Md5CallsOf(files[i])) = 1

\* C16 witness: the lookup of a file named with an upper-case ".ZIP" was sent
\* the checksum of the archive's entry.
C16_Witness ==
    /\ worker_pc = "finished"
    /\ files = << <<"e", ".", "Z", "I", "P">> >>
    /\ Len(lookup_calls) = 1
    /\ lookup_calls[1].md5 = get_md5_in_zip(files[1])
    /\ md5_calls = << get_md5_in_zip(files[1]) >>

\* The positions of the "game-launch" signals among the emitted ones.
LaunchSignals == { n \in DOMAIN signals : signals[n].signal = "game-launch" }

\* C17: at most one "game-launch" is emitted, only with auto-launch on; it is
\* the last signal, the handler has returned and the dialog is destroyed; and
\* once it is emitted no config is written, no row inserted, no media asked
\* for, no signal emitted and no import_rom call made.
C17_OneLaunchThenNothing ==
    /\ [](/\ Cardinality(LaunchSignals) <= 1
          /\ LaunchSignals # {} =>
                /\ launch_game
                /\ auto_launch_button
                /\ LaunchSignals = {Len(signals)}
                /\ ui_pc = "done"
                /\ destroyed
          /\ destroyed => LaunchSignals # {})
    /\ [][LaunchSignals # {} =>
            UNCHANGED << configs, games_db, media, signals, rom_calls,
                         error_labels, info_labels >>]_vars

\* C17 witness: the first of two files was imported and launched while the
\* second one, which the catalog knows, was left alone.
C17_Witness ==
    /\ Len(files) = 2
    /\ ui_pc = "done"
    /\ Len(games_db) = 1
    /\ signals[Len(signals)] = Emit("game-launch", games_db[1].id)
    /\ \A k \in DOMAIN rom_calls : rom_calls[k].file = 1
    /\ cb_results[2].result # << >>
    /\ "category" \in DOMAIN cb_results[2].result[1]
    /\ cb_results[2].result[1].category.name = "Console One"
    /\ cb_results[2].result[1].roms # << >>

\* The runner of the default installer of a category's platform.
RunnerOfCategory(category) ==
    CASE category = "Console One" -> "runner-one"
      [] category = "Console Two" -> "runner-two"
      [] OTHER -> "no runner"

\* The import_rom calls that inserted a game row, in order.
InsertedCalls == SelectSeq(rom_calls, LAMBDA c : c.inserted)

\* C18: add_game is reached only after display_game_info resolved the
\* platform of the same rom set: the runner of the k-th row and of the k-th
\* config is the one of the category of the rom set of the call that made
\* it, and the no-default-installer error names the platform of the call's
\* own rom set.
C18_PlatformOfOwnCandidate ==
    /\ Len(InsertedCalls) = Len(games_db)
    /\ \A k \in DOMAIN games_db :
        LET runner == RunnerOfCategory(InsertedCalls[k].rom_set.category.name)
        IN  /\ games_db[k].runner = runner
            /\ games_db[k].installer_slug[2] = runner
    /\ Len(WroteCalls) = Len(configs)
    /\ \A k \in DOMAIN configs :
        configs[k].config.runner =
            RunnerOfCategory(WroteCalls[k].rom_set.category.name)
    /\ \A k \in DOMAIN rom_calls :
        rom_calls[k].looked_up =>
            /\ rom_calls[k].guessed
            /\ rom_calls[k].rom_set.category.name
                    \in {"Console One", "Console Two", "Console Three"}
            /\ rom_calls[k].raised.msg = NoDefaultInstaller("").msg =>
                    /\ rom_calls[k].rom_set.category.name = "Console Three"
                    /\ rom_calls[k].raised = NoDefaultInstaller("platform-three")

\* C18 witness: two files were imported one after the other with different
\* platforms, and self.platform is left as the platform of the second.
C18_Witness ==
    /\ ui_pc = "done"
    /\ Len(games_db) = 2
    /\ InsertedCalls[1].filename = files[1]
    /\ InsertedCalls[2].filename = files[2]
    /\ games_db[1].runner = "runner-one"
    /\ games_db[2].runner = "runner-two"
    /\ platform = "platform-two"

\* The import_rom calls in which the database insert raised.
InsertFailedCalls == { k \in DOMAIN rom_calls : rom_calls[k].raised = InsertError }

\* The config paths returned by write_game_config so far.
ConfigPaths == { configs[k].configpath : k \in DOMAIN configs }

\* C19: there are at most as many game rows as written configs, the k-th
\* row carries the config path of an earlier write, each call that inserted
\* a row wrote its config first, a call whose insert raised has written its
\* config and inserted no row, and a written config is never taken back.
C19_ConfigBeforeRow ==
    /\ [](/\ Len(games_db) <= Len(configs)
          /\ \A k \in DOMAIN games_db : games_db[k].configpath \in ConfigPaths
          /\ \A k \in DOMAIN rom_calls :
                /\ rom_calls[k].inserted => rom_calls[k].wrote
                /\ rom_calls[k].inserted =>
                        IsPrefix(<< "platform", "template", "config", "insert" >>,
                                 StepNames(StepsOfCall(k)))
          /\ \A k \in InsertFailedCalls :
                /\ rom_calls[k].wrote
                /\ ~rom_calls[k].inserted
                /\ ~rom_calls[k].ret
          /\ Len(configs) = Len(games_db) + Cardinality(InsertFailedCalls))
    /\ [][/\ IsPrefix(configs, configs')
          /\ IsPrefix(games_db, games_db')
          /\ Len(games_db') > Len(games_db) => Len(configs') > Len(configs)]_vars

\* C19 witness: the insert of the first file's game raised after its config
\* was written, the second file was imported, and both configs are there.
C19_Witness ==
    /\ ui_pc = "done"
    /\ Len(configs) = 2
    /\ Len(games_db) = 1
    /\ InsertFailedCalls # {}
    /\ \A k \in InsertFailedCalls : rom_calls[k].file = 1
    /\ games_db[1].configpath = configs[2].configpath
    /\ error_labels[files[1]] = Label(InsertError, TRUE)

====
